---- MODULE Spec2Model ----
(***************************************************************************)
(* A model of the GoDaddy domain manager: the field validators             *)
(* (src/src/utils/validators.py), the registrar client                     *)
(* (src/src/api/godaddy_client.py) and the interactive session of          *)
(* DomainCLI (src/src/ui/cli.py).                                          *)
(*                                                                         *)
(* A Python str is a TLA+ string, a dict is a function on its keys, a list *)
(* is a sequence.  Where the code looks at the type of a JSON value (the   *)
(* error payload of a result) the value carries its type: Str, Dict, List. *)
(* One action is one input() of the session together with everything the   *)
(* program does until it blocks on the next input().                       *)
(***************************************************************************)
EXTENDS Integers, Sequences, FiniteSets, TLC

VARIABLES
    api_url,          \* GoDaddyClient.api_url
    contact_info,     \* DomainCLI.contact_info
    pc,               \* the input() the session is blocked on
    caller,           \* who called purchase_domain_flow: "menu", "check", "search"
    domain_name,      \* local domain_name of the running flow
    suggestions,      \* check_domain_flow: local suggestions
    keyword,          \* search_domains_flow: local keyword
    results,          \* search_domains_flow: local results
    period_choice,    \* purchase_domain_flow: local period_choice (0: not yet assigned)
    period,           \* purchase_domain_flow: local period (0: not yet assigned)
    privacy,          \* purchase_domain_flow: local privacy
    auto_renew,       \* purchase_domain_flow: local auto_renew
    field,            \* collect_contact_info: index of the field being asked
    purchase_options, \* purchase_domain_flow: local purchase_options
    last_input,       \* what the last input() returned
    call,             \* the last client operation the last step called, with the
                      \* HTTP exchange it met
    sent,             \* the HTTP requests the last step performed, in order
    raised,           \* the exception that left the last step ("" for none)
    api_result,       \* what the last _make_request returned
    result,           \* what the last client operation returned to its caller
    branch,           \* the block of purchase_domain_flow that ended the attempt
    out,              \* what the last step printed
    purchase_posts,   \* POST domains/purchase sent since the last menu choice
    found_info        \* collect_contact_info: self.contact_info as the running call
                      \* found it, before it assigned it ({} outside the call)

vars == <<api_url, contact_info, pc, caller, domain_name, suggestions, keyword,
          results, period_choice, period, privacy, auto_renew, field, purchase_options,
          last_input, call, sent, raised, api_result, result, branch, out,
          purchase_posts, found_info>>

(***************************************************************************)
(* Python values                                                           *)
(***************************************************************************)
None == [type |-> "None"]
Str(s) == [type |-> "str", str |-> s]
Dict(d) == [type |-> "dict", dict |-> d]
List(l) == [type |-> "list", list |-> l]
Num(n) == [type |-> "int", int |-> n]
Bool(b) == [type |-> "bool", bool |-> b]

EmptyDict == <<>>
Has(d, k) == k \in DOMAIN d
Get(d, k, default) == IF k \in DOMAIN d THEN d[k] ELSE default
Put(d, k, v) == [x \in (DOMAIN d) \cup {k} |-> IF x = k THEN v ELSE d[x]]

Char(s, i) == SubSeq(s, i, i)
UpperLetters == "ABCDEFGHIJKLMNOPQRSTUVWXYZ"
LowerLetters == "abcdefghijklmnopqrstuvwxyz"
Digits == "0123456789"
CharsOf(s) == {Char(s, i) : i \in 1..Len(s)}
UpperSet == CharsOf(UpperLetters)
LowerSet == CharsOf(LowerLetters)
DigitSet == CharsOf(Digits)
IsDigit(c) == c \in DigitSet
IsLetter(c) == c \in UpperSet \/ c \in LowerSet
IsAlnum(c) == IsLetter(c) \/ IsDigit(c)
OnlyChars(s, class) == \A i \in 1..Len(s) : Char(s, i) \in class

ToLower == [c \in UpperSet |->
               Char(LowerLetters, CHOOSE i \in 1..Len(UpperLetters) : Char(UpperLetters, i) = c)]
ToUpper == [c \in LowerSet |->
               Char(UpperLetters, CHOOSE i \in 1..Len(LowerLetters) : Char(LowerLetters, i) = c)]
DigitValueOf == [c \in DigitSet |-> (CHOOSE i \in 1..Len(Digits) : Char(Digits, i) = c) - 1]

LowerChar(c) == IF c \in UpperSet THEN ToLower[c] ELSE c

RECURSIVE lower(_)
lower(s) == IF Len(s) = 0 THEN "" ELSE LowerChar(Head(s)) \o lower(Tail(s))

\* str.split(sep) for a one-character separator: the list of pieces
RECURSIVE SplitFrom(_, _, _)
SplitFrom(s, sep, piece) ==
    IF Len(s) = 0 THEN <<piece>>
    ELSE IF Head(s) = sep THEN <<piece>> \o SplitFrom(Tail(s), sep, "")
    ELSE SplitFrom(Tail(s), sep, piece \o Head(s))
split(s, sep) == SplitFrom(s, sep, "")

RECURSIVE lstrip(_)
lstrip(s) == IF Len(s) > 0 /\ Head(s) = " " THEN lstrip(Tail(s)) ELSE s
RECURSIVE rstrip(_, _)
rstrip(s, c) ==
    IF Len(s) > 0 /\ Char(s, Len(s)) = c THEN rstrip(SubSeq(s, 1, Len(s) - 1), c) ELSE s
strip(s) == rstrip(lstrip(s), " ")
startswith(s, p) == Len(s) >= Len(p) /\ SubSeq(s, 1, Len(p)) = p

RECURSIVE join(_, _)
join(sep, l) ==
    IF Len(l) = 0 THEN ""
    ELSE IF Len(l) = 1 THEN l[1]
    ELSE l[1] \o sep \o join(sep, Tail(l))

\* int(s): [ok |-> FALSE] stands for ValueError
DigitValue(c) == DigitValueOf[c]
RECURSIVE NatOf(_, _)
NatOf(s, acc) == IF Len(s) = 0 THEN acc ELSE NatOf(Tail(s), 10 * acc + DigitValue(Head(s)))
int(s) ==
    LET t == strip(s)
        signed == Len(t) > 0 /\ Head(t) \in {"+", "-"}
        body == IF signed THEN Tail(t) ELSE t
    IN  IF Len(body) = 0 \/ ~OnlyChars(body, DigitSet) THEN [ok |-> FALSE]
        ELSE [ok |-> TRUE,
              val |-> IF signed /\ Head(t) = "-" THEN 0 - NatOf(body, 0) ELSE NatOf(body, 0)]

Prefix(l, n) == SubSeq(l, 1, IF Len(l) < n THEN Len(l) ELSE n)   \* l[:n]

UpperChar(c) == IF c \in LowerSet THEN ToUpper[c] ELSE c
RECURSIVE upper(_)
upper(s) == IF Len(s) = 0 THEN "" ELSE UpperChar(Head(s)) \o upper(Tail(s))

(***************************************************************************)
(* Field validators                                                        *)
(***************************************************************************)
Letters == UpperSet \cup LowerSet

\* what a pattern ending in $ has to match: re.match lets $ stand at the end of
\* the string and also before a newline that ends the string
BeforeDollar(s) ==
    IF Len(s) > 0 /\ Char(s, Len(s)) = "\n" THEN SubSeq(s, 1, Len(s) - 1) ELSE s
LabelChars == Letters \cup DigitSet \cup {"-"}
LabelCharsU == LabelChars \cup {"_"}

\* validators.domain of the validators package: labels may hold "_" inside and
\* the last label ends with a letter
validators_domain(domain) ==
    LET labels == split(domain, ".")
        n == Len(labels)
        tld == labels[n]
    IN  /\ n >= 2
        /\ \A i \in 1..(n - 1) :
              /\ Len(labels[i]) \in 1..63
              /\ IsAlnum(Char(labels[i], 1))
              /\ IsAlnum(Char(labels[i], Len(labels[i])))
              /\ OnlyChars(labels[i], LabelCharsU)
        /\ Len(tld) \in 2..63
        /\ IsAlnum(Char(tld, 1))
        /\ IsLetter(Char(tld, Len(tld)))
        /\ OnlyChars(tld, LabelCharsU)

\* the pattern of validate_domain_name
DomainPattern(domain) ==
    LET labels == split(BeforeDollar(domain), ".")
        n == Len(labels)
        tld == labels[n]
    IN  /\ n >= 2
        /\ \A i \in 1..(n - 1) :
              /\ Len(labels[i]) \in 1..63
              /\ IsAlnum(Char(labels[i], 1))
              /\ IsAlnum(Char(labels[i], Len(labels[i])))
              /\ OnlyChars(labels[i], LabelChars)
        /\ Len(tld) \in 2..63
        /\ IsAlnum(Char(tld, 1))
        /\ IsAlnum(Char(tld, Len(tld)))
        /\ OnlyChars(tld, LabelChars)

validate_domain_name(domain) ==
    IF Len(domain) = 0 \/ Len(domain) > 253 THEN FALSE
    ELSE IF validators_domain(domain) THEN TRUE
    ELSE DomainPattern(domain)

EmailLocalChars == Letters \cup DigitSet \cup CharsOf("._%+-")
EmailHostChars == Letters \cup DigitSet \cup CharsOf(".-")

\* the pattern of validate_email: local@host.tld, tld of two or more letters
EmailPattern(email) ==
    LET parts == split(BeforeDollar(email), "@")
        host == split(parts[2], ".")
        h == Len(host)
    IN  /\ Len(parts) = 2
        /\ Len(parts[1]) >= 1
        /\ OnlyChars(parts[1], EmailLocalChars)
        /\ OnlyChars(parts[2], EmailHostChars)
        /\ h >= 2
        /\ Len(parts[2]) - Len(host[h]) - 1 >= 1
        /\ Len(host[h]) >= 2
        /\ OnlyChars(host[h], Letters)

validate_email(email) == IF Len(email) = 0 THEN FALSE ELSE EmailPattern(email)

validate_phone(phone) ==
    IF Len(phone) = 0 THEN FALSE
    ELSE LET line == BeforeDollar(phone)
             digits == IF Len(line) > 0 /\ Head(line) = "+" THEN Tail(line) ELSE line
         IN  Len(digits) \in 10..15 /\ OnlyChars(digits, DigitSet)

(***************************************************************************)
(* Operations on values whose type is only known at run time               *)
(***************************************************************************)
\* k in v, for a str k
PyIn(k, v) ==
    CASE v.type = "dict" -> k \in DOMAIN v.dict
      [] v.type = "list" -> \E i \in 1..Len(v.list) : v.list[i] = Str(k)

\* v.get(k, default) of a dict v
PyGet(v, k, default) == IF k \in DOMAIN v.dict THEN v.dict[k] ELSE default

\* bool(v)
Truthy(v) ==
    CASE v.type = "bool" -> v.bool
      [] v.type = "int" -> v.int # 0
      [] v.type = "str" -> v.str # ""
      [] v.type = "list" -> Len(v.list) > 0
      [] v.type = "dict" -> DOMAIN v.dict # {}
      [] v.type = "None" -> FALSE

\* len(v)
PyLen(v) ==
    CASE v.type = "list" -> Len(v.list)
      [] v.type = "dict" -> Cardinality(DOMAIN v.dict)
      [] v.type = "str" -> Len(v.str)

(***************************************************************************)
(* The registrar client: GoDaddyClient                                     *)
(***************************************************************************)
api_version == "v1"

\* what one HTTP exchange can do: the transport raises, or a response arrives
\*   [kind |-> "exception", exc, message]
\*   [kind |-> "response", status, text, message] and, when text parses, json
RequestExceptionClasses ==
    {"RequestException", "HTTPError", "ConnectionError", "Timeout",
     "ConnectTimeout", "ReadTimeout", "SSLError", "JSONDecodeError"}

SupportedMethods == {"GET", "POST", "PUT", "PATCH", "DELETE"}

NormalizeUrl(url) ==
    rstrip(IF ~startswith(url, "http") THEN "https://" \o url ELSE url, "/")

RequestUrl(base, endpoint) == NormalizeUrl(base) \o "/" \o api_version \o "/" \o endpoint

\* TryRequest that parses the body of every 2xx response, also an empty one
TryRequest_AlwaysParse(method, http) ==
    IF upper(method) \notin SupportedMethods
    THEN [exc |-> "", value |-> Dict([error |-> Str("Unsupported HTTP method: " \o method)])]
    ELSE IF http.kind = "exception" THEN [exc |-> http.exc]
    ELSE IF http.status \in 400..599 THEN [exc |-> "HTTPError"]
    ELSE IF Has(http, "json") THEN [exc |-> "", value |-> http.json]
    ELSE [exc |-> "JSONDecodeError"]

\* the try block of _make_request: the exception it raises ("" for none) and
\* the value it returns
TryRequest(method, http) ==
    IF upper(method) \notin SupportedMethods
    THEN [exc |-> "", value |-> Dict([error |-> Str("Unsupported HTTP method: " \o method)])]
    ELSE IF http.kind = "exception" THEN [exc |-> http.exc]
    ELSE IF http.status \in 400..599 THEN [exc |-> "HTTPError"]
    ELSE IF http.text # ""
         THEN IF Has(http, "json") THEN [exc |-> "", value |-> http.json]
              ELSE [exc |-> "JSONDecodeError"]
    ELSE [exc |-> "", value |-> Dict([success |-> Bool(TRUE)])]

\* HandleHTTPError that never looks at the body of the response
HandleHTTPError_MessageOnly(http) == Dict([error |-> Str(http.message)])

\* the except clauses of _make_request
HandleHTTPError(http) ==
    IF Has(http, "json") THEN Dict([error |-> http.json]) ELSE Dict([error |-> Str(http.message)])

HandleRequestException(http) == Dict([error |-> Str(http.message)])

\* _make_request that tries once more after a failure of the transport
make_request_RetryOnce(base, method, endpoint, data, params, http) ==
    LET m == upper(method)
        req == [method |-> m,
                url |-> RequestUrl(base, endpoint),
                json |-> IF m \in {"POST", "PUT", "PATCH"} THEN data ELSE None,
                params |-> params]
        body == TryRequest(method, http)
        requests == IF m \notin SupportedMethods THEN <<>>
                    ELSE IF http.kind = "exception" THEN <<req, req>> ELSE <<req>>
    IN  IF body.exc = "" THEN [requests |-> requests, raised |-> "", value |-> body.value]
        ELSE IF body.exc = "HTTPError"
             THEN [requests |-> requests, raised |-> "", value |-> HandleHTTPError(http)]
        ELSE IF body.exc \in RequestExceptionClasses
             THEN [requests |-> requests, raised |-> "", value |-> HandleRequestException(http)]
        ELSE [requests |-> requests, raised |-> body.exc, value |-> None]

\* _make_request: the requests performed, whether an exception leaves the
\* method, and the value returned
make_request(base, method, endpoint, data, params, http) ==
    LET m == upper(method)
        req == [method |-> m,
                url |-> RequestUrl(base, endpoint),
                json |-> IF m \in {"POST", "PUT", "PATCH"} THEN data ELSE None,
                params |-> params]
        body == TryRequest(method, http)
        requests == IF m \in SupportedMethods THEN <<req>> ELSE <<>>
    IN  IF body.exc = "" THEN [requests |-> requests, raised |-> "", value |-> body.value]
        ELSE IF body.exc = "HTTPError"
             THEN [requests |-> requests, raised |-> "", value |-> HandleHTTPError(http)]
        ELSE IF body.exc \in RequestExceptionClasses
             THEN [requests |-> requests, raised |-> "", value |-> HandleRequestException(http)]
        ELSE [requests |-> requests, raised |-> body.exc, value |-> None]

check_domain_availability(base, domain, http) ==
    make_request(base, "GET", "domains/available", None, [domain |-> domain], http)

search_domains(base, kw, tlds, http) ==
    LET params == [query |-> kw, limit |-> 20, waitMs |-> 1000]
    IN  make_request(base, "GET", "domains/suggest", None,
                     IF Len(tlds) > 0 THEN Put(params, "tlds", join(",", tlds)) ELSE params,
                     http)

get_suggested_domains(base, name, tlds, limit, http) ==
    LET kw == split(name, ".")[1]
        params == [query |-> kw, limit |-> limit]
        r == make_request(base, "GET", "domains/suggest", None,
                          IF Len(tlds) > 0 THEN Put(params, "tlds", join(",", tlds)) ELSE params,
                          http)
    IN  [requests |-> r.requests, raised |-> r.raised, api_result |-> r.value,
         value |-> IF r.raised # "" THEN None
                   ELSE IF PyIn("error", r.value) THEN List(<<>>) ELSE r.value]

contact_types == <<"contactAdmin", "contactBilling", "contactRegistrant", "contactTech">>

\* FormatContact that leaves address2 out when the record has no addressLine2
FormatContact_OptionalAddress2(info) ==
    [nameFirst |-> Get(info, "firstName", ""),
     nameLast |-> Get(info, "lastName", ""),
     email |-> Get(info, "email", ""),
     phone |-> Get(info, "phone", ""),
     addressMailing |->
        (IF Has(info, "addressLine2") THEN [address2 |-> info["addressLine2"]] ELSE EmptyDict)
        @@ [address1 |-> Get(info, "addressLine1", ""),
            city |-> Get(info, "city", ""),
            state |-> Get(info, "state", ""),
            postalCode |-> Get(info, "postalCode", ""),
            country |-> Get(info, "country", "US")]]

\* the formatted_contact of purchase_domain
FormatContact(info) ==
    [nameFirst |-> Get(info, "firstName", ""),
     nameLast |-> Get(info, "lastName", ""),
     email |-> Get(info, "email", ""),
     phone |-> Get(info, "phone", ""),
     addressMailing |->
        [address1 |-> Get(info, "addressLine1", ""),
         address2 |-> Get(info, "addressLine2", ""),
         city |-> Get(info, "city", ""),
         state |-> Get(info, "state", ""),
         postalCode |-> Get(info, "postalCode", ""),
         country |-> Get(info, "country", "US")]]

RECURSIVE AddContacts(_, _, _)
AddContacts(data, options, i) ==
    IF i > Len(contact_types) THEN data
    ELSE AddContacts(IF Has(options, contact_types[i])
                     THEN Put(data, contact_types[i], FormatContact(options[contact_types[i]]))
                     ELSE data,
                     options, i + 1)

AddNameServers(data, options) ==
    IF Has(options, "nameServers") THEN Put(data, "nameServers", options["nameServers"])
    ELSE data

\* the request body of purchase_domain
PurchaseData(domain, options, now) ==
    AddNameServers(
        AddContacts(
            [domain |-> domain,
             consent |-> [agreementKeys |-> <<"DNRA">>,
                          agreedBy |-> Get(options, "agreedBy", "127.0.0.1"),
                          agreedAt |-> Get(options, "agreedAt", now)],
             period |-> Get(options, "period", 1),
             renewAuto |-> Get(options, "renewAuto", TRUE),
             privacy |-> Get(options, "privacy", TRUE)],
            options, 1),
        options)

\* PendingPayment with the order id default of the session's display
PendingPayment_DefaultNA(res) ==
    Dict([status |-> Str("pending_payment"),
          orderId |-> PyGet(res, "orderId", Str("N/A")),
          paymentUrl |-> PyGet(res, "paymentUrl", Str("")),
          message |-> Str("Please complete the payment to finalize domain purchase")])

PendingPayment(res) ==
    Dict([status |-> Str("pending_payment"),
          orderId |-> PyGet(res, "orderId", Str("")),
          paymentUrl |-> PyGet(res, "paymentUrl", Str("")),
          message |-> Str("Please complete the payment to finalize domain purchase")])

\* ClassifyPurchase that looks for the payment URL first
ClassifyPurchase_PaymentFirst(res) ==
    IF PyIn("paymentUrl", res)
    THEN Dict([status |-> Str("pending_payment"),
               orderId |-> PyGet(res, "orderId", Str("")),
               paymentUrl |-> PyGet(res, "paymentUrl", Str("")),
               message |-> Str("Please complete the payment to finalize domain purchase")])
    ELSE res

\* what purchase_domain returns for the result of its request
ClassifyPurchase(res) ==
    IF PyIn("error", res) THEN res
    ELSE IF PyIn("paymentUrl", res) THEN PendingPayment(res)
    ELSE res

purchase_domain(base, domain, options, now, http) ==
    LET r == make_request(base, "POST", "domains/purchase",
                          PurchaseData(domain, options, now), None, http)
    IN  [requests |-> r.requests, raised |-> r.raised, api_result |-> r.value,
         value |-> IF r.raised # "" THEN None ELSE ClassifyPurchase(r.value)]

(***************************************************************************)
(* What the user types and what the registrar answers                      *)
(***************************************************************************)
MaxSuggestions == 6     \* the longest suggestion list the registrar returns
MaxResults == 11        \* the longest search result list the registrar returns

RECURSIVE DigitStr(_)
DigitStr(n) == IF n < 10 THEN Char(Digits, n + 1) ELSE DigitStr(n \div 10) \o Char(Digits, (n % 10) + 1)

MenuInputs == {"1", "2", "3", "4", "5", "x", ""}
YesNoInputs == {"y", "Y", "n", "yes", ""}
DomainInputs == {"example.com", "sub.example.co.uk", "nodot", "", "back", "BACK"}
KeywordInputs == {"myidea", "back"}
CustomTldInputs == {"com, io", ""}
PeriodInputs == {"0", "1", "2", "3", "4", "5", "6", "x", " 2", "-1"}
TwoChoiceInputs == {"0", "1", "2", "3", "x"}
NumberInputs(n) == {DigitStr(i) : i \in 0..(n + 1)} \cup {"back", "BACK", "x", "-1"}
EnterInputs == {""}

fields == <<"firstName", "lastName", "email", "phone", "addressLine1", "addressLine2",
            "city", "state", "postalCode", "country">>

FieldInputs(name) ==
    CASE name = "firstName" -> {"", "Ann", "Bo"}
      [] name = "lastName" -> {"Lee"}
      [] name = "email" -> {"a@b.co", "a@b", "a.b.com"}
      [] name = "phone" -> {"+11234567890", "123", "12345678901234567"}
      [] name = "addressLine1" -> {"1 Main St"}
      [] name = "addressLine2" -> {"", "Apt 2"}
      [] name = "city" -> {"Pune"}
      [] name = "state" -> {"MH"}
      [] name = "postalCode" -> {"", "411001"}
      [] name = "country" -> {"IN", "IND", "I", "12"}

Clock == {1000}          \* int(time.time() * 1000) at the purchase

TransportFailure == [kind |-> "exception", exc |-> "ConnectionError", message |-> "Connection refused"]
OkJson(v) == [kind |-> "response", status |-> 200, text |-> "json", message |-> "", json |-> v]
OkEmpty == [kind |-> "response", status |-> 200, text |-> "", message |-> ""]
OkNotJson == [kind |-> "response", status |-> 200, text |-> "<html>", message |-> "Expecting value"]
ErrJson(status, v) ==
    [kind |-> "response", status |-> status, text |-> "json", message |-> "Client Error", json |-> v]
ErrText(status) ==
    [kind |-> "response", status |-> status, text |-> "Bad Gateway", message |-> "Server Error"]

SuggestionEntry(i) ==
    Dict([domain |-> Str("alt" \o DigitStr(i) \o ".com"), price |-> Num(i * 1000000)])
ResultEntry(i) ==
    Dict([domain |-> Str("find" \o DigitStr(i) \o ".net"), price |-> Num(i * 1000000)])

AvailabilityOutcomes(domain) ==
    {TransportFailure,
     ErrJson(422, Dict([code |-> Str("INVALID_DOMAIN"), message |-> Str("not a domain")])),
     OkJson(Dict([available |-> Bool(TRUE), domain |-> Str(domain), price |-> Num(999900)])),
     OkJson(Dict([available |-> Bool(FALSE), domain |-> Str(domain)])),
     OkEmpty}

SuggestOutcomes ==
    {TransportFailure, ErrText(502), OkEmpty}
    \cup {OkJson(List([i \in 1..n |-> SuggestionEntry(i)])) : n \in 0..MaxSuggestions}

SearchOutcomes ==
    {TransportFailure, ErrText(502), OkEmpty}
    \cup {OkJson(List([i \in 1..n |-> ResultEntry(i)])) : n \in 0..MaxResults}

PurchaseOutcomes ==
    {TransportFailure,
     ErrText(502),
     OkEmpty,
     ErrJson(422, Dict([code |-> Str("INVALID_BODY"), message |-> Str("invalid body"),
                        fields |-> List(<<Dict([path |-> Str("contactAdmin.nameFirst"),
                                               message |-> Str("is required")])>>)])),
     ErrJson(422, Dict([fields |-> Dict([nameFirst |-> Str("is required")])])),
     ErrJson(400, Dict([code |-> Str("UNAVAILABLE"), message |-> Str("domain taken")])),
     ErrJson(400, Dict([code |-> Str("UNAVAILABLE")])),
     OkJson(Dict([orderId |-> Str("A1"), total |-> Num(999900)])),
     OkJson(Dict([total |-> Num(999900)])),
     OkJson(Dict([paymentUrl |-> Str("https://pay/A2"), orderId |-> Str("A2")])),
     OkJson(Dict([paymentUrl |-> Str("https://pay/A3")])),
     OkJson(Dict([error |-> Str("declined"), paymentUrl |-> Str("https://pay/A4"),
                  orderId |-> Str("A4")])),
     OkJson(Dict([status |-> Str("pending_payment"), orderId |-> Str("A5")]))}

(***************************************************************************)
(* The session: DomainCLI                                                  *)
(***************************************************************************)
DefaultApiUrl == "https://api.godaddy.com"

Init ==
    /\ api_url = DefaultApiUrl
    /\ contact_info = EmptyDict
    /\ pc = "menu"
    /\ caller = "none"
    /\ domain_name = ""
    /\ suggestions = None
    /\ keyword = ""
    /\ results = None
    /\ period_choice = 0
    /\ period = 0
    /\ privacy = FALSE
    /\ auto_renew = FALSE
    /\ field = 0
    /\ purchase_options = EmptyDict
    /\ last_input = ""
    /\ call = None
    /\ sent = <<>>
    /\ raised = ""
    /\ api_result = None
    /\ result = None
    /\ branch = "none"
    /\ out = <<>>
    /\ purchase_posts = 0
    /\ found_info = EmptyDict

\* one step of the session: u gives the variables the step assigns; the locals
\* it does not assign keep their values, and what a step sent, received and
\* printed is that step's alone
Assign(u) ==
    /\ api_url' = api_url
    /\ contact_info' = Get(u, "contact_info", contact_info)
    /\ pc' = Get(u, "pc", pc)
    /\ caller' = Get(u, "caller", caller)
    /\ domain_name' = Get(u, "domain_name", domain_name)
    /\ suggestions' = Get(u, "suggestions", suggestions)
    /\ keyword' = Get(u, "keyword", keyword)
    /\ results' = Get(u, "results", results)
    /\ period_choice' = Get(u, "period_choice", period_choice)
    /\ period' = Get(u, "period", period)
    /\ privacy' = Get(u, "privacy", privacy)
    /\ auto_renew' = Get(u, "auto_renew", auto_renew)
    /\ field' = Get(u, "field", field)
    /\ purchase_options' = Get(u, "purchase_options", purchase_options)
    /\ last_input' = u.last_input
    /\ call' = Get(u, "call", None)
    /\ sent' = Get(u, "sent", <<>>)
    /\ raised' = Get(u, "raised", "")
    /\ api_result' = Get(u, "api_result", None)
    /\ result' = Get(u, "result", None)
    /\ branch' = Get(u, "branch", "none")
    /\ out' = Get(u, "out", <<>>)
    /\ purchase_posts' = Get(u, "purchase_posts", purchase_posts)
    /\ found_info' = Get(u, "found_info", found_info)

Apply(step) == \E u \in {step} : Assign(u)

\* a flow function returns to the loop of start: its locals are gone
Returned ==
    [pc |-> "menu", caller |-> "none", domain_name |-> "", suggestions |-> None,
     keyword |-> "", results |-> None, period_choice |-> 0, period |-> 0,
     privacy |-> FALSE,
     auto_renew |-> FALSE, field |-> 0, purchase_options |-> EmptyDict,
     found_info |-> EmptyDict]

\* an exception leaves a flow: start catches ValueError and shows the menu
\* again, any other exception ends the process
Uncaught(exc) ==
    IF exc = "ValueError"
    THEN [out |-> <<"Invalid input. Please enter a number.">>] @@ Returned
    ELSE [pc |-> "crashed", raised |-> exc] @@ Returned

Called(op, http, r) ==
    [call |-> [op |-> op, http |-> http], sent |-> r.requests, api_result |-> r.value,
     result |-> r.value]

\* start: the main menu
MenuChoice(s) ==
    LET choice == int(s)
    IN  [last_input |-> s, purchase_posts |-> 0] @@
        (IF ~choice.ok THEN [out |-> <<"Invalid input. Please enter a number.">>]
         ELSE IF choice.val = 1 THEN [pc |-> "check_domain"]
         ELSE IF choice.val = 2 THEN [pc |-> "search_keyword"]
         ELSE IF choice.val = 3 THEN [pc |-> "purchase_domain", caller |-> "menu"]
         ELSE IF choice.val = 4
              THEN [pc |-> "exit", out |-> <<"Thank you for using GoDaddy Domain Manager!">>]
         ELSE [out |-> <<"Invalid choice. Please enter a number between 1 and 4.">>])

MenuInput ==
    /\ pc = "menu"
    /\ \E s \in MenuInputs : Apply(MenuChoice(s))

\* the numbered lines a flow prints for the first n entries of a list
Listing(list, n) ==
    [i \in 1..Len(Prefix(list, n)) |-> DigitStr(i) \o ". " \o list[i].dict.domain.str]

(***************************************************************************)
(* check_domain_flow                                                       *)
(***************************************************************************)
\* purchase_domain_flow entered with a domain name: it asks for the period.
\* The calling flow only returns once the purchase flow is over (break, return),
\* so the locals of its frame are dropped here.
EnterPurchase(from, domain) ==
    [pc |-> "period", caller |-> from, domain_name |-> domain] @@ Returned

\* the suggestions of an unavailable domain
OfferSuggestions(s, r, http) ==
    LET g == get_suggested_domains(api_url, s, <<>>, 5, http)
        both == [call |-> [op |-> "get_suggested_domains", http |-> http],
                 sent |-> r.requests \o g.requests, api_result |-> g.api_result,
                 result |-> g.value]
    IN  IF g.raised # "" THEN Uncaught(g.raised)
        ELSE IF Truthy(g.value) /\ PyLen(g.value) > 0
        THEN IF g.value.type # "list"
             THEN both @@ Uncaught("TypeError")
             ELSE both @@
                  [pc |-> "check_suggest_q", suggestions |-> g.value,
                   out |-> <<s \o " is not available.">> \o Listing(g.value.list, 5)]
        ELSE both @@
             [pc |-> "check_again", suggestions |-> g.value,
              out |-> <<s \o " is not available.", "No suggested domains found.">>]

CheckDomain(s, http, http2) ==
    [last_input |-> s] @@
    (IF lower(s) = "back" THEN Returned
     ELSE IF ~validate_domain_name(s)
          THEN [domain_name |-> s,
                out |-> <<"Invalid domain name format. Please try again.">>]
     ELSE LET r == check_domain_availability(api_url, s, http)
              called == Called("check_domain_availability", http, r)
          IN  IF r.raised # "" THEN Uncaught(r.raised)
              ELSE IF PyIn("error", r.value)
              THEN called @@ [domain_name |-> s, out |-> <<"Error checking domain">>]
              ELSE IF Truthy(PyGet(r.value, "available", Bool(FALSE)))
                   THEN called @@
                        [domain_name |-> s, pc |-> "check_purchase_q",
                         out |-> <<"Good news! " \o s \o " is available for purchase!">>]
              ELSE [domain_name |-> s] @@ OfferSuggestions(s, r, http2))

CheckDomainInput ==
    /\ pc = "check_domain"
    /\ \E s \in DomainInputs : \E http \in AvailabilityOutcomes(s) : \E http2 \in SuggestOutcomes :
          Apply(CheckDomain(s, http, http2))

\* CheckPurchase that takes every answer beginning with y for a yes
CheckPurchase_AnyYes(s) ==
    [last_input |-> s] @@
    (IF startswith(lower(s), "y") THEN EnterPurchase("check", domain_name)
     ELSE [pc |-> "check_again"])

CheckPurchase(s) ==
    [last_input |-> s] @@
    (IF lower(s) = "y" THEN EnterPurchase("check", domain_name) ELSE [pc |-> "check_again"])

CheckPurchaseInput ==
    /\ pc = "check_purchase_q"
    /\ \E s \in YesNoInputs : Apply(CheckPurchase(s))

CheckSuggest(s) ==
    [last_input |-> s] @@
    (IF lower(s) = "y" THEN [pc |-> "check_suggest_num"] ELSE [pc |-> "check_again"])

CheckSuggestInput ==
    /\ pc = "check_suggest_q"
    /\ \E s \in YesNoInputs : Apply(CheckSuggest(s))

\* SelectFrom that takes a number up to the length of the whole list
SelectFrom_WholeList(s, list, n) ==
    LET num == int(s)
        shown == Len(list)
    IN  IF ~num.ok THEN [ok |-> FALSE, out |-> <<"Invalid input. Please enter a number or 'back'.">>]
        ELSE IF 0 <= num.val - 1 /\ num.val - 1 < shown
             THEN [ok |-> TRUE, domain |-> list[(num.val - 1) + 1].dict.domain.str]
        ELSE [ok |-> FALSE,
              out |-> <<"Invalid choice. Please enter a number between 1 and "
                        \o DigitStr(shown) \o ".">>]

\* the number prompt over the first n entries of a list: what is selected
SelectFrom(s, list, n) ==
    LET num == int(s)
        shown == Len(Prefix(list, n))
    IN  IF ~num.ok THEN [ok |-> FALSE, out |-> <<"Invalid input. Please enter a number or 'back'.">>]
        ELSE IF 0 <= num.val - 1 /\ num.val - 1 < shown
             THEN [ok |-> TRUE, domain |-> list[(num.val - 1) + 1].dict.domain.str]
        ELSE [ok |-> FALSE,
              out |-> <<"Invalid choice. Please enter a number between 1 and "
                        \o DigitStr(shown) \o ".">>]

CheckSuggestNum(s) ==
    [last_input |-> s] @@
    (IF lower(s) = "back" THEN [pc |-> "check_again"]
     ELSE LET sel == SelectFrom(s, suggestions.list, 5)
          IN  IF sel.ok THEN EnterPurchase("check", sel.domain) ELSE [out |-> sel.out])

CheckSuggestNumInput ==
    /\ pc = "check_suggest_num"
    /\ \E s \in NumberInputs(MaxSuggestions) : Apply(CheckSuggestNum(s))

\* CheckAgain that compares the answer as typed, without lower()
CheckAgain_AsTyped(s) ==
    [last_input |-> s] @@ (IF s # "y" THEN Returned ELSE [pc |-> "check_domain"])

CheckAgain(s) ==
    [last_input |-> s] @@ (IF lower(s) # "y" THEN Returned ELSE [pc |-> "check_domain"])

CheckAgainInput ==
    /\ pc = "check_again"
    /\ \E s \in YesNoInputs : Apply(CheckAgain(s))

(***************************************************************************)
(* search_domains_flow                                                     *)
(***************************************************************************)
SearchKeyword(s) ==
    [last_input |-> s] @@
    (IF lower(s) = "back" THEN Returned ELSE [keyword |-> s, pc |-> "search_tld"])

SearchKeywordInput ==
    /\ pc = "search_keyword"
    /\ \E s \in KeywordInputs : Apply(SearchKeyword(s))

selected_tlds(tld_choice) ==
    CASE tld_choice = 1 -> <<>>
      [] tld_choice = 2 -> <<"com", "net", "org">>
      [] tld_choice = 3 -> <<"io", "dev", "tech">>
      [] tld_choice = 4 -> <<"ai", "app", "co">>

custom_tlds(s) == LET parts == split(s, ",") IN [i \in 1..Len(parts) |-> strip(parts[i])]

\* the search and what follows it, up to the purchase question
Search(tlds, http) ==
    LET r == search_domains(api_url, keyword, tlds, http)
    IN  Called("search_domains", http, r) @@
        (IF r.raised # "" THEN Uncaught(r.raised)
         ELSE IF PyIn("error", r.value) THEN [out |-> <<"Error searching domains">>] @@ Returned
         ELSE IF ~Truthy(r.value) \/ PyLen(r.value) = 0
              THEN [out |-> <<"No domains found for keyword">>] @@ Returned
         ELSE IF r.value.type # "list" THEN Uncaught("TypeError")
         ELSE [results |-> r.value, pc |-> "search_purchase_q",
               out |-> Listing(r.value.list, 10)])

SearchTld(s, http) ==
    LET choice == int(s)
    IN  [last_input |-> s] @@
        (IF ~choice.ok THEN [out |-> <<"Invalid input. Please enter a number.">>]
         ELSE IF ~(1 <= choice.val /\ choice.val <= 5)
              THEN [out |-> <<"Invalid choice. Please enter a number between 1 and 5.">>]
         ELSE IF choice.val = 5 THEN [pc |-> "search_custom_tlds"]
         ELSE Search(selected_tlds(choice.val), http))

SearchTldInput ==
    /\ pc = "search_tld"
    /\ \E s \in PeriodInputs : \E http \in SearchOutcomes : Apply(SearchTld(s, http))

SearchCustomTlds(s, http) == [last_input |-> s] @@ Search(custom_tlds(s), http)

SearchCustomTldsInput ==
    /\ pc = "search_custom_tlds"
    /\ \E s \in CustomTldInputs : \E http \in SearchOutcomes : Apply(SearchCustomTlds(s, http))

SearchPurchase(s) ==
    [last_input |-> s] @@ (IF lower(s) = "y" THEN [pc |-> "search_num"] ELSE Returned)

SearchPurchaseInput ==
    /\ pc = "search_purchase_q"
    /\ \E s \in YesNoInputs : Apply(SearchPurchase(s))

\* SearchNum that compares the answer with 'back' as typed, without lower()
SearchNum_BackAsTyped(s) ==
    [last_input |-> s] @@
    (IF s = "back" THEN Returned
     ELSE LET sel == SelectFrom(s, results.list, 10)
          IN  IF sel.ok THEN EnterPurchase("search", sel.domain) ELSE [out |-> sel.out])

SearchNum(s) ==
    [last_input |-> s] @@
    (IF lower(s) = "back" THEN Returned
     ELSE LET sel == SelectFrom(s, results.list, 10)
          IN  IF sel.ok THEN EnterPurchase("search", sel.domain) ELSE [out |-> sel.out])

SearchNumInput ==
    /\ pc = "search_num"
    /\ \E s \in NumberInputs(MaxResults) : Apply(SearchNum(s))

(***************************************************************************)
(* purchase_domain_flow and collect_contact_info                           *)
(***************************************************************************)
\* PurchaseDomain that takes a result without an available key for available
PurchaseDomain_AvailableByDefault(s, http) ==
    [last_input |-> s] @@
    (IF lower(s) = "back" THEN Returned
     ELSE IF ~validate_domain_name(s)
          THEN [out |-> <<"Invalid domain name format. Please try again.">>] @@ Returned
     ELSE LET r == check_domain_availability(api_url, s, http)
          IN  Called("check_domain_availability", http, r) @@
              (IF r.raised # "" THEN Uncaught(r.raised)
               ELSE IF PyIn("error", r.value) THEN [out |-> <<"Error checking domain">>] @@ Returned
               ELSE IF ~Truthy(PyGet(r.value, "available", Bool(TRUE)))
                    THEN [out |-> <<s \o " is not available for purchase.">>] @@ Returned
               ELSE [out |-> <<s \o " is available">>] @@ EnterPurchase(caller, s)))

\* purchase_domain_flow called without a domain name
PurchaseDomain(s, http) ==
    [last_input |-> s] @@
    (IF lower(s) = "back" THEN Returned
     ELSE IF ~validate_domain_name(s)
          THEN [out |-> <<"Invalid domain name format. Please try again.">>] @@ Returned
     ELSE LET r == check_domain_availability(api_url, s, http)
          IN  Called("check_domain_availability", http, r) @@
              (IF r.raised # "" THEN Uncaught(r.raised)
               ELSE IF PyIn("error", r.value) THEN [out |-> <<"Error checking domain">>] @@ Returned
               ELSE IF ~Truthy(PyGet(r.value, "available", Bool(FALSE)))
                    THEN [out |-> <<s \o " is not available for purchase.">>] @@ Returned
               ELSE [out |-> <<s \o " is available">>] @@ EnterPurchase(caller, s)))

PurchaseDomainInput ==
    /\ pc = "purchase_domain"
    /\ \E s \in DomainInputs : \E http \in AvailabilityOutcomes(s) :
          Apply(PurchaseDomain(s, http))

\* period_options as the identity: the choice taken for the number of years
period_options_Linear(choice) == choice

period_options(choice) ==
    CASE choice = 1 -> 1
      [] choice = 2 -> 2
      [] choice = 3 -> 3
      [] choice = 4 -> 5
      [] choice = 5 -> 10

Period(s) ==
    LET choice == int(s)
    IN  [last_input |-> s] @@
        (IF ~choice.ok THEN [out |-> <<"Invalid input. Please enter a number.">>]
         ELSE IF 1 <= choice.val /\ choice.val <= 5
              THEN [period_choice |-> choice.val, period |-> period_options(choice.val),
                    pc |-> "privacy"]
         ELSE [period_choice |-> choice.val,
               out |-> <<"Invalid choice. Please enter a number between 1 and 5.">>])

PeriodInput ==
    /\ pc = "period"
    /\ \E s \in PeriodInputs : Apply(Period(s))

Privacy(s) ==
    LET privacy_choice == int(s)
    IN  [last_input |-> s] @@
        (IF ~privacy_choice.ok THEN [out |-> <<"Invalid input. Please enter a number.">>]
         ELSE IF 1 <= privacy_choice.val /\ privacy_choice.val <= 2
              THEN [privacy |-> (privacy_choice.val = 1), pc |-> "renew"]
         ELSE [out |-> <<"Invalid choice. Please enter 1 or 2.">>])

PrivacyInput ==
    /\ pc = "privacy"
    /\ \E s \in TwoChoiceInputs : Apply(Privacy(s))

\* the auto-renewal choice; an accepted one enters collect_contact_info, which
\* empties self.contact_info before its first prompt
Renew_KeepsRecord(s) ==
    LET renew_choice == int(s)
    IN  [last_input |-> s] @@
        (IF ~renew_choice.ok THEN [out |-> <<"Invalid input. Please enter a number.">>]
         ELSE IF 1 <= renew_choice.val /\ renew_choice.val <= 2
              THEN [auto_renew |-> (renew_choice.val = 1), pc |-> "contact",
                    found_info |-> contact_info, field |-> 1]
         ELSE [out |-> <<"Invalid choice. Please enter 1 or 2.">>])

Renew(s) ==
    LET renew_choice == int(s)
    IN  [last_input |-> s] @@
        (IF ~renew_choice.ok THEN [out |-> <<"Invalid input. Please enter a number.">>]
         ELSE IF 1 <= renew_choice.val /\ renew_choice.val <= 2
              THEN [auto_renew |-> (renew_choice.val = 1), pc |-> "contact",
                    found_info |-> contact_info, contact_info |-> EmptyDict,
                    field |-> 1]
         ELSE [out |-> <<"Invalid choice. Please enter 1 or 2.">>])

RenewInput ==
    /\ pc = "renew"
    /\ \E s \in TwoChoiceInputs : Apply(Renew(s))

\* the formatted_contact of collect_contact_info
CollectFormatted(info) ==
    [nameFirst |-> Get(info, "firstName", ""),
     nameLast |-> Get(info, "lastName", ""),
     email |-> Get(info, "email", ""),
     phone |-> Get(info, "phone", ""),
     addressMailing |->
        [address1 |-> Get(info, "addressLine1", ""),
         address2 |-> Get(info, "addressLine2", ""),
         city |-> Get(info, "city", ""),
         state |-> Get(info, "state", ""),
         postalCode |-> Get(info, "postalCode", ""),
         country |-> Get(info, "country", "US")]]

\* what collect_contact_info returns
CollectedContacts(info) ==
    [contactAdmin |-> CollectFormatted(info),
     contactBilling |-> CollectFormatted(info),
     contactRegistrant |-> CollectFormatted(info),
     contactTech |-> CollectFormatted(info)]

\* the purchase_options of purchase_domain_flow
PurchaseOptions(p, renew, priv, contacts) ==
    contacts @@ [period |-> p, renewAuto |-> renew, privacy |-> priv]

\* the checks of one prompt of collect_contact_info: "" when the value is taken
FieldProblem(field_name, value) ==
    IF field_name # "addressLine2" /\ value = ""
    THEN "This field is required. Please enter a value."
    ELSE IF field_name = "email" /\ value # "" /\ ~validate_email(value)
         THEN "Invalid email format. Please enter a valid email."
    ELSE IF field_name = "phone" /\ value # "" /\ ~validate_phone(value)
         THEN "Invalid phone format. Please include country code (e.g., +1234567890)."
    ELSE IF field_name = "country" /\ value # "" /\ Len(value) # 2
         THEN "Country code should be 2 letters (e.g., US, IN, UK)."
    ELSE ""

Contact(value) ==
    LET field_name == fields[field]
        info == Put(contact_info, field_name, value)
    IN  [last_input |-> value] @@
        (IF FieldProblem(field_name, value) # "" THEN [out |-> <<FieldProblem(field_name, value)>>]
         ELSE IF field < Len(fields) THEN [contact_info |-> info, field |-> field + 1]
         ELSE [contact_info |-> info, field |-> 0, found_info |-> EmptyDict,
               pc |-> "confirm",
               purchase_options |->
                   PurchaseOptions(period, auto_renew, privacy, CollectedContacts(info)),
               out |-> <<"Purchase Confirmation",
                         "- Registrant: " \o info["firstName"] \o " " \o info["lastName"]>>])

ContactInput ==
    /\ pc = "contact"
    /\ \E value \in FieldInputs(fields[field]) : Apply(Contact(value))

\* the report of a purchase error: the lines printed, and the exception raised
\* on the way ("" for none)
ErrorReport(error_details) ==
    IF error_details.type = "dict"
    THEN IF Has(error_details.dict, "fields")
         THEN IF error_details.dict["fields"].type = "dict"
              THEN [raised |-> "",
                    out |-> <<"Error purchasing domain:", "Invalid fields in request:",
                              "Please check your input and try again.">>]
              ELSE [raised |-> "AttributeError",
                    out |-> <<"Error purchasing domain:", "Invalid fields in request:">>]
         ELSE [raised |-> "",
               out |-> <<"Error purchasing domain:", "Please check your input and try again.">>]
    ELSE [raised |-> "",
          out |-> <<"Error purchasing domain:", "Please check your input and try again.">>]

\* the block of purchase_domain_flow that a purchase result selects
Outcome(res) ==
    IF PyIn("error", res) THEN "failure"
    ELSE IF PyIn("status", res) /\ res.dict["status"] = Str("pending_payment") THEN "payment"
    ELSE IF PyIn("paymentUrl", res) THEN "payment"
    ELSE "success"

Submit(http, now) ==
    LET r == purchase_domain(api_url, domain_name, purchase_options, now, http)
        called == [call |-> [op |-> "purchase_domain", http |-> http],
                   sent |-> r.requests, api_result |-> r.api_result, result |-> r.value,
                   purchase_posts |-> purchase_posts + Len(r.requests)]
        to == Outcome(r.value)
    IN  called @@
        (IF r.raised # "" THEN Uncaught(r.raised)
         ELSE IF to = "failure"
         THEN LET report == ErrorReport(r.value.dict["error"])
              IN  IF report.raised # ""
                  THEN [branch |-> "failure"] @@ Uncaught(report.raised)
                  ELSE [branch |-> "failure", out |-> report.out] @@ Returned
         ELSE IF to = "payment"
              THEN [branch |-> "payment", pc |-> "payment_enter",
                    out |-> <<"Payment Required",
                              "Order ID: " \o PyGet(r.value, "orderId", Str("N/A")).str,
                              "Open this URL in your browser: "
                                  \o PyGet(r.value, "paymentUrl", Str("")).str>>]
         ELSE [branch |-> "success", pc |-> "success_enter",
               out |-> <<"Congratulations!",
                         "Order ID: " \o PyGet(r.value, "orderId", Str("N/A")).str>>])

\* Confirm that takes every answer beginning with y for a yes
Confirm_AnyYes(s, http, now) ==
    [last_input |-> s] @@
    (IF ~startswith(lower(s), "y")
     THEN [branch |-> "cancelled", out |-> <<"Purchase cancelled.">>] @@ Returned
     ELSE Submit(http, now))

Confirm(s, http, now) ==
    [last_input |-> s] @@
    (IF lower(s) # "y"
     THEN [branch |-> "cancelled", out |-> <<"Purchase cancelled.">>] @@ Returned
     ELSE Submit(http, now))

ConfirmInput ==
    /\ pc = "confirm"
    /\ \E s \in YesNoInputs : \E http \in PurchaseOutcomes : \E now \in Clock :
          Apply(Confirm(s, http, now))

\* "Press Enter to continue..." of show_payment_url
PaymentContinue ==
    /\ pc = "payment_enter"
    /\ \E s \in EnterInputs : Apply([last_input |-> s] @@ Returned)

\* "Press Enter to continue..." after the congratulations
SuccessContinue ==
    /\ pc = "success_enter"
    /\ \E s \in EnterInputs : Apply([last_input |-> s] @@ Returned)

Next ==
    \/ MenuInput
    \/ CheckDomainInput
    \/ CheckPurchaseInput
    \/ CheckSuggestInput
    \/ CheckSuggestNumInput
    \/ CheckAgainInput
    \/ SearchKeywordInput
    \/ SearchTldInput
    \/ SearchCustomTldsInput
    \/ SearchPurchaseInput
    \/ SearchNumInput
    \/ PurchaseDomainInput
    \/ PeriodInput
    \/ PrivacyInput
    \/ RenewInput
    \/ ContactInput
    \/ ConfirmInput
    \/ PaymentContinue
    \/ SuccessContinue

Spec == Init /\ [][Next]_vars

\* The session with a user who answers: every input() of purchase_domain_flow
\* gets a line, and each while True loop of the flow (period, privacy,
\* auto-renewal, each field of collect_contact_info) is left at some time with
\* a value it accepts.  The registrar's answer is part of the step that calls it.
UserAnswers ==
    /\ WF_vars(PurchaseDomainInput)
    /\ WF_vars(ConfirmInput)
    /\ WF_vars(PaymentContinue)
    /\ WF_vars(SuccessContinue)

UserGivesAccepted ==
    /\ WF_vars(PeriodInput /\ pc' # "period")
    /\ WF_vars(PrivacyInput /\ pc' # "privacy")
    /\ WF_vars(RenewInput /\ pc' # "renew")
    /\ WF_vars(ContactInput /\ field' # field)

LiveSpec == Spec /\ UserAnswers /\ UserGivesAccepted

(***************************************************************************)
(* The client on its own: every operation of GoDaddyClient called with     *)
(* arguments and HTTP exchanges drawn from bounded sets                    *)
(***************************************************************************)
ApiUrls ==
    {"https://api.godaddy.com", "https://api.godaddy.com/", "api.ote-godaddy.com",
     "api.ote-godaddy.com//", "httpbin.org", "http://localhost"}

Methods == {"GET", "get", "POST", "Put", "PATCH", "DELETE", "HEAD", ""}
Endpoints == {"domains/available", "orders/A1"}

HttpOutcomes ==
    {TransportFailure,
     [kind |-> "exception", exc |-> "ConnectTimeout", message |-> "timed out"],
     [kind |-> "exception", exc |-> "SSLError", message |-> "certificate verify failed"],
     OkEmpty, OkNotJson, ErrText(502), ErrText(404),
     [kind |-> "response", status |-> 500, text |-> "", message |-> "Server Error"],
     [kind |-> "response", status |-> 304, text |-> "", message |-> ""],
     [kind |-> "response", status |-> 204, text |-> "", message |-> ""],
     ErrJson(422, Dict([code |-> Str("INVALID_BODY"),
                        fields |-> List(<<Dict([path |-> Str("domain")])>>)])),
     ErrJson(401, Str("unauthorized")),
     OkJson(Dict([available |-> Bool(TRUE), price |-> Num(999900)])),
     OkJson(List(<<SuggestionEntry(1), SuggestionEntry(2)>>)),
     OkJson(Dict([error |-> Str("declined")]))}

FlatContact ==
    [firstName |-> "Ann", lastName |-> "Lee", email |-> "a@b.co", phone |-> "+11234567890",
     addressLine1 |-> "1 Main St", addressLine2 |-> "Apt 2", city |-> "Pune", state |-> "MH",
     postalCode |-> "411001", country |-> "IN"]

Without(d, keys) == [k \in (DOMAIN d) \ keys |-> d[k]]

ContactRecords ==
    {FlatContact, Without(FlatContact, {"addressLine2"}), Without(FlatContact, {"country"}),
     Without(FlatContact, {"firstName", "email"}), EmptyDict}

RoleSets == {{}, {"contactAdmin"}, {"contactBilling", "contactTech"},
             {"contactAdmin", "contactBilling", "contactRegistrant", "contactTech"}}

NameServerLists == {<<>>, <<"ns1.example.com", "ns2.example.com">>}

BaseOptions ==
    {EmptyDict,
     [period |-> 2, renewAuto |-> FALSE, privacy |-> FALSE],
     [period |-> 10, agreedBy |-> "10.0.0.1", agreedAt |-> 5]}

ClientOptions ==
    {[k \in roles |-> rec] @@ base : roles \in RoleSets, rec \in ContactRecords, base \in BaseOptions}
    \cup {[nameServers |-> ns] @@ [contactAdmin |-> FlatContact] @@ base :
             ns \in NameServerLists, base \in BaseOptions}

ClientCall(op, args, http, r) ==
    /\ pc = "client"
    /\ call' = [op |-> op, args |-> args, http |-> http]
    /\ sent' = r.requests
    /\ raised' = r.raised
    /\ api_result' = IF Has(r, "api_result") THEN r.api_result ELSE r.value
    /\ result' = r.value
    /\ pc' = "returned"
    /\ UNCHANGED <<api_url, contact_info, caller, domain_name, suggestions, keyword,
                   results, period_choice, period, privacy, auto_renew, field, purchase_options,
                   last_input, branch, out, purchase_posts,
                   found_info>>

\* the caller has taken the result; the client, which keeps nothing of a call
\* but its session, is ready for the next one
ClientReturn ==
    /\ pc = "returned"
    /\ pc' = "client"
    /\ call' = None
    /\ sent' = <<>>
    /\ raised' = ""
    /\ api_result' = None
    /\ result' = None
    /\ UNCHANGED <<api_url, contact_info, caller, domain_name, suggestions, keyword,
                   results, period_choice, period, privacy, auto_renew, field, purchase_options,
                   last_input, branch, out, purchase_posts,
                   found_info>>

ClientMakeRequest ==
    /\ pc = "client"
    /\ \E method \in Methods : \E endpoint \in Endpoints : \E http \in HttpOutcomes :
           ClientCall("_make_request", [method |-> method, endpoint |-> endpoint], http,
                      make_request(api_url, method, endpoint, [id |-> 1], [q |-> "x"], http))

ClientCheckAvailability ==
    /\ pc = "client"
    /\ \E domain \in {"example.com", "sub.example.co.uk"} : \E http \in HttpOutcomes :
           ClientCall("check_domain_availability", [domain |-> domain], http,
                      check_domain_availability(api_url, domain, http))

ClientSearchDomains ==
    /\ pc = "client"
    /\ \E kw \in {"myidea"} : \E tlds \in {<<>>, <<"com", "net">>} : \E http \in HttpOutcomes :
           ClientCall("search_domains", [keyword |-> kw, tlds |-> tlds], http,
                      search_domains(api_url, kw, tlds, http))

ClientGetDetails ==
    /\ pc = "client"
    /\ \E domain \in {"example.com"} : \E http \in HttpOutcomes :
           ClientCall("get_domain_details", [domain |-> domain], http,
                      make_request(api_url, "GET", "domains/" \o domain, None, None, http))

ClientOrderStatus ==
    /\ pc = "client"
    /\ \E order_id \in {"A1"} : \E http \in HttpOutcomes :
           ClientCall("check_order_status", [order_id |-> order_id], http,
                      make_request(api_url, "GET", "orders/" \o order_id, None, None, http))

ClientSuggested ==
    /\ pc = "client"
    /\ \E name \in {"myidea.com", "sub.example.co.uk", "nodot"} :
       \E tlds \in {<<>>, <<"io">>} : \E http \in HttpOutcomes :
           ClientCall("get_suggested_domains", [domain_name |-> name, tlds |-> tlds], http,
                      get_suggested_domains(api_url, name, tlds, 5, http))

ClientPurchase ==
    /\ pc = "client"
    /\ \E domain \in {"example.com"} : \E options \in ClientOptions :
       \E now \in Clock : \E http \in PurchaseOutcomes \cup {OkNotJson} :
           ClientCall("purchase_domain", [domain |-> domain, options |-> options, now |-> now],
                      http, purchase_domain(api_url, domain, options, now, http))

ClientInit ==
    /\ api_url \in ApiUrls
    /\ contact_info = EmptyDict
    /\ pc = "client"
    /\ caller = "none"
    /\ domain_name = ""
    /\ suggestions = None
    /\ keyword = ""
    /\ results = None
    /\ period_choice = 0
    /\ period = 0
    /\ privacy = FALSE
    /\ auto_renew = FALSE
    /\ field = 0
    /\ purchase_options = EmptyDict
    /\ last_input = ""
    /\ call = None
    /\ sent = <<>>
    /\ raised = ""
    /\ api_result = None
    /\ result = None
    /\ branch = "none"
    /\ out = <<>>
    /\ purchase_posts = 0
    /\ found_info = EmptyDict

ClientNext ==
    \/ ClientMakeRequest
    \/ ClientCheckAvailability
    \/ ClientSearchDomains
    \/ ClientGetDetails
    \/ ClientOrderStatus
    \/ ClientSuggested
    \/ ClientPurchase
    \/ ClientReturn

ClientSpec == ClientInit /\ [][ClientNext]_vars

\* the session and the client on its own, side by side
ProgramSpec == (Init \/ ClientInit) /\ [][Next \/ ClientNext]_vars

(***************************************************************************)
(* The validators on their own: validate_phone applied to strings drawn    *)
(* from a bounded set                                                      *)
(***************************************************************************)
MaxDigits == 17      \* the longest run of digits in a phone input

RECURSIVE DigitRun(_)
DigitRun(n) == IF n = 0 THEN "" ELSE DigitRun(n - 1) \o Char(Digits, (n % 10) + 1)

PhoneInputs ==
    {before \o DigitRun(n) \o after :
        before \in {"", "+", "++", "-", " +"},
        n \in 0..MaxDigits,
        after \in {"", "\n", "\n\n", "a", " ", ".5"}}

ValidatePhone ==
    /\ pc \in {"validator", "validated"}
    /\ \E phone \in PhoneInputs :
          /\ last_input' = phone
          /\ call' = [op |-> "validate_phone"]
          /\ result' = Bool(validate_phone(phone))
    /\ pc' = "validated"
    /\ UNCHANGED <<api_url, contact_info, caller, domain_name, suggestions, keyword,
                   results, period_choice, period, privacy, auto_renew, field, purchase_options,
                   sent, raised, api_result, branch, out, purchase_posts,
                   found_info>>

ValidatorInit ==
    /\ api_url = DefaultApiUrl
    /\ contact_info = EmptyDict
    /\ pc = "validator"
    /\ caller = "none"
    /\ domain_name = ""
    /\ suggestions = None
    /\ keyword = ""
    /\ results = None
    /\ period_choice = 0
    /\ period = 0
    /\ privacy = FALSE
    /\ auto_renew = FALSE
    /\ field = 0
    /\ purchase_options = EmptyDict
    /\ last_input = ""
    /\ call = None
    /\ sent = <<>>
    /\ raised = ""
    /\ api_result = None
    /\ result = None
    /\ branch = "none"
    /\ out = <<>>
    /\ purchase_posts = 0
    /\ found_info = EmptyDict

ValidatorNext == ValidatePhone

ValidatorSpec == ValidatorInit /\ [][ValidatorNext]_vars

(***************************************************************************)
(* Properties                                                              *)
(***************************************************************************)
Roles == {"contactAdmin", "contactBilling", "contactRegistrant", "contactTech"}

IsPurchasePost(req) ==
    req.method = "POST" /\ req.url = RequestUrl(api_url, "domains/purchase")

PurchasePosts(reqs) == {i \in 1..Len(reqs) : IsPurchasePost(reqs[i])}

PurchaseCalled == Has(call, "op") /\ call.op = "purchase_domain"

\* the sub-object of a role names the person and the address of the record
CarriesRecord(sub, rec) ==
    /\ sub.nameFirst = rec["firstName"]
    /\ sub.nameLast = rec["lastName"]
    /\ sub.addressMailing.address1 = rec["addressLine1"]
    /\ sub.addressMailing.address2 = rec["addressLine2"]
    /\ sub.addressMailing.city = rec["city"]
    /\ sub.addressMailing.state = rec["state"]
    /\ sub.addressMailing.postalCode = rec["postalCode"]
    /\ sub.addressMailing.country = rec["country"]

\* C1: the purchase body that Submit sends carries, in each of the four contact
\* roles, the record entered in CollectContacts: nameFirst and nameLast are the
\* entered firstName and lastName, and addressMailing holds the entered address.
C1_BodyCarriesEnteredRecord ==
    \A i \in PurchasePosts(sent) :
        \A role \in Roles :
            /\ Has(sent[i].json, role)
            /\ CarriesRecord(sent[i].json[role], contact_info)

\* C2: purchase_domain returns the registrar result itself, error payload and
\* all, whenever that result has an error key, also when it has a paymentUrl
\* key as well; it builds no pending_payment value then.
C2_ErrorResultReturnedUnmodified ==
    (pc = "returned" /\ PurchaseCalled /\ PyIn("error", api_result))
        => /\ result = api_result
           /\ ~(PyIn("status", result) /\ result.dict["status"] = Str("pending_payment"))

C2_Witness ==
    /\ pc = "returned"
    /\ PurchaseCalled
    /\ PyIn("error", api_result)
    /\ PyIn("paymentUrl", api_result)
    /\ result = api_result

\* C3: for a registrar result with a paymentUrl key and no error key,
\* purchase_domain returns status pending_payment with the registrar's
\* paymentUrl and the registrar's orderId, or "" when the result has no orderId.
C3_PendingPaymentFromPaymentUrl ==
    (pc = "returned" /\ PurchaseCalled /\ ~PyIn("error", api_result)
        /\ PyIn("paymentUrl", api_result))
        => /\ result.type = "dict"
           /\ {"status", "orderId", "paymentUrl"} \subseteq DOMAIN result.dict
           /\ result.dict["status"] = Str("pending_payment")
           /\ result.dict["paymentUrl"] = api_result.dict["paymentUrl"]
           /\ result.dict["orderId"] =
                 (IF Has(api_result.dict, "orderId") THEN api_result.dict["orderId"] ELSE Str(""))

C3_Witness ==
    /\ pc = "returned"
    /\ PurchaseCalled
    /\ ~PyIn("error", api_result)
    /\ PyIn("paymentUrl", api_result)
    /\ ~Has(api_result.dict, "orderId")
    /\ result.dict["orderId"] = Str("")

\* C4: the block that ends a submitted purchase is chosen by the registrar
\* response alone: failure when it has an error key, otherwise payment exactly
\* when it has a paymentUrl key, otherwise success.
C4_BranchChosenByResponse ==
    (pc # "client" /\ pc # "returned" /\ PurchaseCalled)
        => branch = (IF PyIn("error", api_result) THEN "failure"
                     ELSE IF PyIn("paymentUrl", api_result) THEN "payment"
                     ELSE "success")

Affirmative(s) == s \in {"y", "Y"}

\* C5: at the confirmation prompt only the answer y (or Y) reaches the purchase
\* endpoint; every other answer ends the attempt with "Purchase cancelled.",
\* without a call to purchase_domain and without the error block; and no step
\* other than an affirmative confirmation sends a purchase request.
C5_PurchaseOnlyAfterYes ==
    [][/\ (pc = "confirm" /\ ~Affirmative(last_input'))
            => /\ out' = <<"Purchase cancelled.">>
               /\ sent' = <<>>
               /\ call' = None
               /\ branch' = "cancelled"
               /\ pc' = "menu"
       /\ (pc = "confirm" /\ Affirmative(last_input'))
            => /\ Has(call', "op")
               /\ call'.op = "purchase_domain"
               /\ branch' # "cancelled"
       /\ (PurchasePosts(sent') # {})
            => (pc = "confirm" /\ Affirmative(last_input'))]_vars

C5_Witness ==
    /\ pc = "menu"
    /\ branch = "cancelled"
    /\ last_input = "yes"
    /\ sent = <<>>

\* C6: no error outcome of a registrar operation ends the process: after a
\* step whose registrar result has an error key the session is still running.
C6_ErrorDoesNotEndProcess ==
    (pc # "client" /\ pc # "returned" /\ Has(call, "op") /\ PyIn("error", api_result))
        => pc # "crashed"

HttpPayload(http) ==
    IF http.kind = "response" /\ Has(http, "json") THEN http.json ELSE Str(http.message)

ReturnsError(http) ==
    /\ raised = ""
    /\ api_result.type = "dict"
    /\ Has(api_result.dict, "error")
    /\ api_result.dict["error"] = HttpPayload(http)

\* C7 as stated: a transport failure or any status outside 2xx makes
\* _make_request return an error value.
C7_Non2xxReturnsError ==
    (pc = "returned" /\ sent # <<>>
        /\ (call.http.kind = "exception"
            \/ (call.http.kind = "response" /\ call.http.status \notin 200..299)))
        => ReturnsError(call.http)

\* C7 (amended): _make_request never raises for a transport failure or for a
\* 4xx or 5xx status: it returns a value whose error key holds the parsed JSON
\* body of the response when there is one, and the error message otherwise.
C7_FailureReturnsError ==
    (pc = "returned" /\ sent # <<>>
        /\ (call.http.kind = "exception"
            \/ (call.http.kind = "response" /\ call.http.status \in 400..599)))
        => ReturnsError(call.http)

C7_Witness ==
    /\ pc = "returned"
    /\ call.op = "_make_request"
    /\ sent # <<>>
    /\ call.http.kind = "response"
    /\ call.http.status = 422
    /\ raised = ""
    /\ api_result.dict["error"] = call.http.json

RequiredFields ==
    {"firstName", "lastName", "email", "phone", "addressLine1", "city", "state",
     "postalCode", "country"}

\* the sub-object that the registrar expects for a flat record
FormattedAs(sub, rec) ==
    /\ sub.nameFirst = rec["firstName"]
    /\ sub.nameLast = rec["lastName"]
    /\ sub.email = rec["email"]
    /\ sub.phone = rec["phone"]
    /\ sub.addressMailing.address1 = rec["addressLine1"]
    /\ Has(sub.addressMailing, "address2")
    /\ sub.addressMailing.address2 =
          (IF Has(rec, "addressLine2") THEN rec["addressLine2"] ELSE "")
    /\ sub.addressMailing.city = rec["city"]
    /\ sub.addressMailing.state = rec["state"]
    /\ sub.addressMailing.postalCode = rec["postalCode"]
    /\ sub.addressMailing.country = rec["country"]

\* C8: a flat contact record passed to purchase_domain under a role appears in
\* the body under that role with the registrar's names: nameFirst, nameLast,
\* email, phone and addressMailing with address1, address2, city, state,
\* postalCode, country; a record without addressLine2 gets address2 = "".
C8_FlatRecordFormatted ==
    (pc = "returned" /\ PurchaseCalled)
        => \A role \in Roles \cap DOMAIN call.args.options :
              RequiredFields \subseteq DOMAIN call.args.options[role]
                 => /\ Len(sent) = 1
                    /\ Has(sent[1].json, role)
                    /\ FormattedAs(sent[1].json[role], call.args.options[role])

C8_Witness ==
    /\ pc = "returned"
    /\ PurchaseCalled
    /\ Has(call.args.options, "contactTech")
    /\ RequiredFields \subseteq DOMAIN call.args.options["contactTech"]
    /\ ~Has(call.args.options["contactTech"], "addressLine2")
    /\ sent[1].json["contactTech"].addressMailing.address2 = ""

PeriodTable == <<1, 2, 3, 5, 10>>

AcceptedPeriodChoice(s) == int(s).ok /\ int(s).val \in 1..5

\* C9: an accepted period choice c of 1..5 puts the table value 1, 2, 3, 5, 10
\* into the purchase options; any other input at the period prompt is asked
\* again and gives no period.
C9_PeriodFromTable ==
    /\ [](pc = "confirm"
            => /\ period_choice \in 1..5
               /\ purchase_options["period"] = PeriodTable[period_choice])
    /\ [][pc = "period"
            => IF AcceptedPeriodChoice(last_input')
               THEN /\ period' = PeriodTable[int(last_input').val]
                    /\ pc' = "privacy"
               ELSE /\ period' = 0
                    /\ pc' = "period"]_vars

C9_Witness ==
    /\ pc = "confirm"
    /\ period_choice = 5
    /\ purchase_options["period"] = 10

RejectedDomain(s) == lower(s) # "back" /\ ~validate_domain_name(s)

\* C10: an empty or invalid domain at the domain prompt of check_domain_flow
\* or of purchase_domain_flow is asked again: the flow stays at that prompt and
\* sends nothing to the registrar.
C10_RejectedDomainAskedAgain ==
    [][(pc \in {"check_domain", "purchase_domain"} /\ RejectedDomain(last_input'))
          => (pc' = pc /\ sent' = <<>>)]_vars

AvailabilityFailed ==
    /\ Has(call', "op")
    /\ call'.op = "check_domain_availability"
    /\ PyIn("error", api_result')

\* C11: a Failure of the availability check leaves the flow at its own domain
\* prompt, in check_domain_flow and in purchase_domain_flow alike: the flow
\* neither goes on to the purchase options nor ends the session.
C11_AvailabilityFailureBackToPrompt ==
    [][(pc \in {"check_domain", "purchase_domain"} /\ AvailabilityFailed)
          => pc' = pc]_vars

Min(a, b) == IF a < b THEN a ELSE b

SuggestedDomain(k) == suggestions.list[k].dict.domain.str

\* C12: of the suggestions for an unavailable domain at most 5 are presented,
\* in the registrar's order; a number k with 1 <= k <= min(5, number of
\* suggestions) enters the purchase flow at the period prompt with the k-th
\* presented domain as the domain to purchase, and any other number (or
\* something that is no number) is asked again.
C12_SelectionEntersPurchase ==
    /\ [](pc = "check_suggest_q"
            => /\ Len(out) - 1 = Min(5, Len(suggestions.list))
               /\ \A k \in 1..(Len(out) - 1) :
                     out[k + 1] = DigitStr(k) \o ". " \o SuggestedDomain(k))
    /\ [][(pc = "check_suggest_num" /\ lower(last_input') # "back")
            => IF int(last_input').ok
                  /\ int(last_input').val \in 1..Min(5, Len(suggestions.list))
               THEN /\ pc' = "period"
                    /\ domain_name' = SuggestedDomain(int(last_input').val)
                    /\ sent' = <<>>
               ELSE /\ pc' = "check_suggest_num"
                    /\ suggestions' = suggestions
                    /\ domain_name' = domain_name]_vars

C12_Witness ==
    /\ pc = "period"
    /\ caller = "check"
    /\ last_input = "5"
    /\ domain_name = "alt5.com"

NoneSelected ==
    \/ pc = "check_suggest_q" /\ lower(last_input') # "y"
    \/ pc = "check_suggest_num" /\ lower(last_input') = "back"
    \/ /\ pc = "check_domain"
       /\ Has(call', "op")
       /\ call'.op = "get_suggested_domains"
       /\ result'.type = "list"
       /\ result'.list = <<>>

UnavailableAtPurchase ==
    /\ pc = "purchase_domain"
    /\ Has(call', "op")
    /\ call'.op = "check_domain_availability"
    /\ ~PyIn("error", api_result')
    /\ ~Truthy(PyGet(api_result', "available", Bool(FALSE)))

\* C13 as stated: with no suggestion found or none selected check_domain_flow
\* is over and the main menu is shown; so it is for purchase_domain_flow with
\* an unavailable domain.
C13_NoSelectionReturnsToMenu ==
    [][(NoneSelected \/ UnavailableAtPurchase) => pc' = "menu"]_vars

\* C13 (amended): with no suggestion found or none selected check_domain_flow
\* enters no purchase and asks whether to check another domain; any answer
\* other than y there returns to the main menu and y asks for a domain again.
\* purchase_domain_flow with an unavailable domain returns to the main menu.
C13_NoSelectionAsksAgainThenMenu ==
    [][/\ NoneSelected => (pc' = "check_again" /\ PurchasePosts(sent') = {})
       /\ (pc = "check_again" /\ lower(last_input') # "y")
            => (pc' = "menu" /\ sent' = <<>>)
       /\ (pc = "check_again" /\ lower(last_input') = "y")
            => (pc' = "check_domain" /\ sent' = <<>>)
       /\ UnavailableAtPurchase => (pc' = "menu" /\ Len(sent') = 1)]_vars

C13_Witness ==
    /\ pc = "check_again"
    /\ Has(call, "op")
    /\ call.op = "get_suggested_domains"
    /\ result = List(<<>>)
    /\ out = <<domain_name \o " is not available.", "No suggested domains found.">>

\* a domain name without its last n labels
WithoutLabels(name, n) ==
    LET labels == split(name, ".")
    IN  join(".", SubSeq(labels, 1, Len(labels) - n))

\* the names left when the TLD is taken off: the TLD is the last label, or the
\* last two for a two-label suffix such as co.uk
TldStripped(name) ==
    {WithoutLabels(name, 1)}
    \cup (IF Len(split(name, ".")) >= 3 THEN {WithoutLabels(name, 2)} ELSE {})

\* C14: the query that get_suggested_domains sends for a domain name that the
\* domain validator accepts is that name with its TLD taken off, also for a
\* name with more than one dot.
C14_QueryIsNameWithoutTld ==
    (pc = "returned" /\ call.op = "get_suggested_domains"
        /\ validate_domain_name(call.args.domain_name))
        => /\ Len(sent) = 1
           /\ sent[1].params["query"] \in TldStripped(call.args.domain_name)

CheckPrompts ==
    {"check_domain", "check_purchase_q", "check_suggest_q", "check_suggest_num", "check_again"}

OfferDeclined == pc = "check_purchase_q" /\ lower(last_input') # "y"

\* C15 as stated: declining the purchase offer for an available domain ends
\* check_domain_flow: the main menu is shown next.
C15_DeclineReturnsToMenu ==
    [][OfferDeclined => pc' = "menu"]_vars

\* C15 (amended): declining the purchase offer for an available domain sends
\* nothing and leads to the question whether to check another domain, where any
\* answer other than y returns to the main menu; at no prompt of
\* check_domain_flow has a purchase request been sent in that run of the flow.
C15_DeclineSendsNoPurchase ==
    /\ [](pc \in CheckPrompts => (purchase_posts = 0 /\ PurchasePosts(sent) = {}))
    /\ [][/\ OfferDeclined
             => (pc' = "check_again" /\ sent' = <<>> /\ call' = None
                 /\ purchase_posts' = 0)
          /\ (pc = "check_again" /\ lower(last_input') # "y")
             => (pc' = "menu" /\ purchase_posts' = 0)]_vars

C15_Witness ==
    /\ pc = "check_again"
    /\ last_input = "n"
    /\ suggestions = None
    /\ domain_name = "example.com"
    /\ purchase_posts = 0

RequiredContactFields == {fields[i] : i \in 1..Len(fields)} \ {"addressLine2"}

IsTwoLetterCode(s) == Len(s) = 2 /\ \A i \in 1..2 : IsLetter(Char(s, i))

\* C16: the contact record with which collect_contact_info returns holds every
\* field; each field other than addressLine2 is non-empty, the email passes
\* validate_email, the phone passes validate_phone and the country is a code of
\* exactly 2 letters.
C16_ReturnedRecordIsValid ==
    pc = "confirm"
        => /\ DOMAIN contact_info = {fields[i] : i \in 1..Len(fields)}
           /\ \A f \in RequiredContactFields : contact_info[f] # ""
           /\ validate_email(contact_info["email"])
           /\ validate_phone(contact_info["phone"])
           /\ IsTwoLetterCode(contact_info["country"])

\* C17: the purchase body has a nameServers key only if the caller supplied at
\* least one name server: none with the key absent from the options and none
\* with an empty list.
C17_NameServersOnlyIfSupplied ==
    (pc = "returned" /\ PurchaseCalled /\ Len(sent) = 1 /\ Has(sent[1].json, "nameServers"))
        => /\ Has(call.args.options, "nameServers")
           /\ Len(call.args.options["nameServers"]) >= 1

EmptyBody2xx(http) ==
    http.kind = "response" /\ http.status \in 200..299 /\ http.text = ""

\* C18: for a response with a 2xx status and an empty body _make_request
\* returns {success: true}: it raises nothing and returns no error value.
C18_EmptyBodyGivesSuccessMarker ==
    (pc = "returned" /\ sent # <<>> /\ EmptyBody2xx(call.http))
        => /\ raised = ""
           /\ api_result = Dict([success |-> Bool(TRUE)])
           /\ ~PyIn("error", api_result)

C18_Witness ==
    /\ pc = "returned"
    /\ call.op = "_make_request"
    /\ call.http.kind = "response"
    /\ call.http.status = 204
    /\ call.http.text = ""
    /\ result = Dict([success |-> Bool(TRUE)])

\* an optional + and then 10 to 15 decimal digits, nothing else
IsPhoneNumber(s) ==
    LET body == IF startswith(s, "+") THEN SubSeq(s, 2, Len(s)) ELSE s
    IN  /\ 10 <= Len(body)
        /\ Len(body) <= 15
        /\ \A i \in 1..Len(body) : Char(body, i) \in DigitSet

\* C19: validate_phone accepts a string exactly when it is an optional leading
\* + followed by 10 to 15 decimal digits and nothing else.
C19_PhoneAcceptedIffNumber ==
    (pc = "validated" /\ call.op = "validate_phone")
        => result = Bool(IsPhoneNumber(last_input))

\* the client methods one step of the session calls
CallsOfStep ==
    IF ~Has(call, "op") THEN 0
    ELSE IF call.op = "get_suggested_domains" /\ pc \notin {"client", "returned"} THEN 2
    ELSE 1

\* C20: one call is one attempt. A call of a client method sends at most one
\* HTTP request, and none for a method _make_request does not support; a step
\* of the session sends no more requests than it makes calls; and one run of a
\* flow sends at most one POST domains/purchase, exactly one when the purchase
\* ends in the Failure branch.
C20_OneCallOneAttempt ==
    /\ Len(sent) <= CallsOfStep
    /\ (pc = "returned" /\ call.op = "_make_request"
          /\ call.args.method \notin {"GET", "get", "POST", "Put", "PATCH", "DELETE"})
        => sent = <<>>
    /\ Cardinality(PurchasePosts(sent)) <= 1
    /\ purchase_posts <= 1
    /\ branch = "failure" => (purchase_posts = 1 /\ Cardinality(PurchasePosts(sent)) = 1)

C20_Witness ==
    /\ pc = "menu"
    /\ branch = "failure"
    /\ call.http.kind = "exception"
    /\ purchase_posts = 1
    /\ Len(sent) = 1

HasScheme(url) == startswith(url, "http://") \/ startswith(url, "https://")

\* the base URL with https:// put before a value without a scheme and without
\* slashes at its end
NormalizedBase(url) ==
    rstrip(IF HasScheme(url) THEN url ELSE "https://" \o url, "/")

\* C21: for every configured base URL the URL that _make_request requests is
\* the normalized base, then /v1/, then the endpoint; a base without a scheme
\* gets https://, also when its host name begins with the letters http.
C21_RequestUrlFromNormalizedBase ==
    (pc = "returned" /\ call.op = "_make_request" /\ sent # <<>>)
        => sent[1].url = NormalizedBase(api_url) \o "/v1/" \o call.args.endpoint

PurchasePrompts == {"period", "privacy", "renew", "contact", "confirm"}

\* the availability check of this step says that the domain can be had
ReportedAvailable(c, sentreqs, res, domain) ==
    /\ Has(c, "op")
    /\ c.op = "check_domain_availability"
    /\ Len(sentreqs) = 1
    /\ sentreqs[1].params = [domain |-> domain]
    /\ res.type = "dict"
    /\ ~Has(res.dict, "error")
    /\ Has(res.dict, "available")
    /\ res.dict["available"] = Bool(TRUE)

ListedDomains(v, n) == {v.list[k].dict.domain.str : k \in 1..Min(n, Len(v.list))}

\* C22: a purchase is submitted only for a domain the registrar vouched for in
\* the same flow. The purchase prompts are entered only with a domain whose
\* availability check has just returned available = true (and which passed the
\* validator), or with a domain picked by its number from the suggestions or
\* the search results the registrar returned; the domain stays the same up to
\* the confirmation, and the purchase request names that domain.
C22_PurchaseOnlyForVouchedDomain ==
    /\ [](pc = "check_purchase_q"
            => /\ ReportedAvailable(call, sent, api_result, domain_name)
               /\ validate_domain_name(domain_name))
    /\ [](pc = "check_suggest_q" => (api_result.type = "list" /\ suggestions = api_result))
    /\ [](pc = "search_purchase_q" => (api_result.type = "list" /\ results = api_result))
    /\ [][/\ (pc = "check_suggest_q" /\ pc' = "check_suggest_num") => suggestions' = suggestions
          /\ (pc = "search_purchase_q" /\ pc' = "search_num") => results' = results
          /\ (pc \notin PurchasePrompts /\ pc' \in PurchasePrompts)
                => /\ pc' = "period"
                   /\ \/ pc = "check_purchase_q" /\ domain_name' = domain_name
                      \/ pc = "check_suggest_num" /\ domain_name' \in ListedDomains(suggestions, 5)
                      \/ pc = "search_num" /\ domain_name' \in ListedDomains(results, 10)
                      \/ /\ pc = "purchase_domain"
                         /\ domain_name' = last_input'
                         /\ validate_domain_name(domain_name')
                         /\ ReportedAvailable(call', sent', api_result', domain_name')
          /\ (pc \in PurchasePrompts /\ pc' \in PurchasePrompts) => domain_name' = domain_name
          /\ \A i \in PurchasePosts(sent') :
                pc = "confirm" /\ sent'[i].json.domain = domain_name]_vars

C22_Witness ==
    /\ PurchasePosts(sent) # {}
    /\ sent[1].json.domain = "find10.net"
    /\ branch = "success"

FoundDomain(k) == results.list[k].dict.domain.str

\* C23: search_domains_flow displays at most the first 10 results; a number k
\* enters the purchase flow only when 1 <= k <= min(10, number of results), and
\* then with the domain displayed under k; every other input is asked again,
\* except 'back', which returns to the main menu.
C23_SearchSelectionWithinDisplayed ==
    /\ [](pc = "search_purchase_q"
            => /\ Len(out) = Min(10, Len(results.list))
               /\ \A k \in 1..Len(out) : out[k] = DigitStr(k) \o ". " \o FoundDomain(k))
    /\ [][pc = "search_num"
            => IF lower(last_input') = "back"
               THEN pc' = "menu" /\ sent' = <<>>
               ELSE IF int(last_input').ok
                       /\ int(last_input').val \in 1..Min(10, Len(results.list))
               THEN /\ pc' = "period"
                    /\ domain_name' = FoundDomain(int(last_input').val)
                    /\ sent' = <<>>
               ELSE /\ pc' = "search_num"
                    /\ results' = results
                    /\ sent' = <<>>]_vars

C23_Witness ==
    /\ pc = "period"
    /\ caller = "search"
    /\ last_input = "10"
    /\ domain_name = "find10.net"

\* the fields collect_contact_info has stored when it asks for field number n
AskedBefore(n) == {fields[i] : i \in 1..(n - 1)}

\* a formatted contact holds exactly the values of the flat record info
MadeFrom(contact, info) ==
    /\ contact.nameFirst = info["firstName"]
    /\ contact.nameLast = info["lastName"]
    /\ contact.email = info["email"]
    /\ contact.phone = info["phone"]
    /\ contact.addressMailing.address1 = info["addressLine1"]
    /\ contact.addressMailing.address2 = info["addressLine2"]
    /\ contact.addressMailing.city = info["city"]
    /\ contact.addressMailing.state = info["state"]
    /\ contact.addressMailing.postalCode = info["postalCode"]
    /\ contact.addressMailing.country = info["country"]

\* C24: in every purchase attempt of a session the registrant of the
\* confirmation summary and the contacts of the purchase options come only
\* from the record collected in that attempt: collect_contact_info starts from
\* an empty contact_info whatever an earlier attempt left there, each prompt
\* adds the accepted value of its own field and nothing else, and at the
\* confirmation the summary and the four contacts are made from that record.
C24_ContactsFromThisAttempt ==
    /\ [][(pc = "renew" /\ pc' = "contact")
            => (DOMAIN contact_info' = {} /\ field' = 1)]_vars
    /\ [](pc = "contact" => DOMAIN contact_info = AskedBefore(field))
    /\ [][pc = "contact"
            => \/ pc' = "contact" /\ field' = field /\ contact_info' = contact_info
               \/ /\ contact_info' = Put(contact_info, fields[field], last_input')
                  /\ pc' = IF field < Len(fields) THEN "contact" ELSE "confirm"
                  /\ field' = IF field < Len(fields) THEN field + 1 ELSE 0]_vars
    /\ [](pc = "confirm"
            => /\ DOMAIN contact_info = AskedBefore(Len(fields) + 1)
               /\ out[2] = "- Registrant: " \o contact_info["firstName"] \o " "
                                \o contact_info["lastName"]
               /\ \A role \in Roles : MadeFrom(purchase_options[role], contact_info))

\* a later attempt of the session is at the last prompt of
\* collect_contact_info: the record it found was complete and named Ann, the
\* record it holds names Bo and has no country yet
C24_Witness ==
    /\ pc = "contact"
    /\ fields[field] = "country"
    /\ DOMAIN found_info = AskedBefore(Len(fields) + 1)
    /\ found_info["firstName"] = "Ann"
    /\ found_info["addressLine2"] = "Apt 2"
    /\ contact_info["firstName"] = "Bo"
    /\ contact_info["addressLine2"] = ""
    /\ ~Has(contact_info, "country")

\* the prompts of purchase_domain_flow, its "Press Enter" pauses included
PurchaseFlowPrompts == PurchasePrompts \cup {"purchase_domain", "payment_enter", "success_enter"}

\* C25: with a user who in time gives an accepted value at every re-prompting
\* prompt and a registrar that answers, every run of purchase_domain_flow
\* ends: it returns before the options are collected (back, invalid domain,
\* availability error, unavailable), or is cancelled at the confirmation, or
\* ends in exactly one of Failure, PendingPayment and Success, and in each
\* case control is back with the caller, which shows the main menu.
C25_PurchaseFlowReturnsToCaller ==
    /\ [][pc = "purchase_domain" => (pc' \in {"menu", "period"} /\ branch' = "none")]_vars
    /\ [][pc = "confirm"
            => \/ branch' \in {"cancelled", "failure"} /\ pc' = "menu"
               \/ branch' = "payment" /\ pc' = "payment_enter"
               \/ branch' = "success" /\ pc' = "success_enter"]_vars
    /\ [][(pc \in {"payment_enter", "success_enter"}) => pc' = "menu"]_vars
    /\ (pc \in PurchaseFlowPrompts) ~> (pc = "menu")

====
